---- MODULE Spec2Model ----
(***************************************************************************)
(* Model of server.js: an express application with a SQLite store (tables  *)
(* Role and User), an in-memory session store, a bootstrap promise chain   *)
(* started at module load, and its routes.                                 *)
(*                                                                         *)
(* Granularity: node runs one callback at a time, so every stretch of code *)
(* between two suspension points of the source (an `await`, the callback   *)
(* of session.destroy) is one atomic action.  A store operation takes      *)
(* effect in the step that resumes after its `await`.  Several requests,   *)
(* also of one client, may be in flight at once, together with bootstrap.  *)
(***************************************************************************)
EXTENDS Naturals, FiniteSets, Sequences, Bags, TLC

VARIABLES
    schema,     \* TRUE once the tables Roles and Users exist in db.sqlite
    roles,      \* rows of table Role: [id, name]
    users,      \* rows of table User: [id, login, password, roleId]
    userSeq,    \* the largest User.id ever assigned (AUTOINCREMENT never reuses an id)
    sessions,   \* session store: client -> req.session.user (NoSession if none)
    boot,       \* the bootstrap promise chain: [pc, adminRoleId, hashed] and
                \* fresh: the store held no row when the process started,
                \* again: the store was initialized when the process started
    inflight,   \* bag of the requests suspended at an await or a callback
    ev,         \* the response sent by the last step (NoEvent if none was sent)
    registered  \* history: [login, password, id] of every POST /register that redirected

vars == <<schema, roles, users, userSeq, sessions, boot, inflight, ev, registered>>

(* ------------------------------ bounds -------------------------------- *)

NumClients == 2      \* clients (cookie jars) that send requests
MaxInFlight == 2     \* requests suspended at the same time
NumSalts == 1        \* salts bcrypt may draw

Clients == 1..NumClients
Logins == {"admin", "bob"}          \* values of req.body.login
Passwords == {"admin", "pw"}        \* values of req.body.password sent to POST /login
NewPasswords == {"pw"}              \* values of req.body.password sent to POST /register
Salts == {"salt" \o ToString(i) : i \in 1..NumSalts}

(* ------------------------------ values -------------------------------- *)

NoRole == [id |-> 0, name |-> ""]
NoUser == [id |-> 0, login |-> "", password |-> "", roleId |-> 0]
NoSession == [id |-> 0, login |-> "", role |-> ""]
NoEvent == [client |-> 0, route |-> "", login |-> "", status |-> 0, loc |-> "", body |-> ""]

\* a response: the client and route it answers, req.body.login of the request ("" if it
\* has none), the status, the Location of a redirect and the text sent
Response(c, route, login, status, loc, body) ==
    [client |-> c, route |-> route, login |-> login, status |-> status, loc |-> loc,
     body |-> body]

Redirect(c, route, login, loc) == Response(c, route, login, 302, loc, "")

(* -------------------------- credential hasher ------------------------- *)

\* bcrypt.hash(p, 10) with the salt it drew: version, cost, salt, digest.
Hash(p, s) == "$2b$10$" \o s \o "$" \o p

\* bcrypt.compare(p, h): hashes p again with the salt held in h and compares.
Compare(p, h) == \E s \in Salts : h = Hash(p, s)

(* ------------------------------ store --------------------------------- *)

MaxOf(S) == IF S = {} THEN 0 ELSE CHOOSE m \in S : \A n \in S : n <= m

\* autoIncrement primary key of the next inserted row
NextId(rows) == MaxOf({r.id : r \in rows}) + 1

\* Role.findOne({ where: { name } })
RoleFindOne(name) ==
    IF \E r \in roles : r.name = name
    THEN CHOOSE r \in roles : r.name = name
    ELSE NoRole

\* Role.findOrCreate({ where: { name }, defaults: { name } }): the table afterwards
RoleFindOrCreate(name) ==
    IF \E r \in roles : r.name = name
    THEN roles
    ELSE roles \cup {[id |-> NextId(roles), name |-> name]}

\* User.findOne({ where: { login } })
UserFindOne(login) ==
    IF \E u \in users : u.login = login
    THEN CHOOSE u \in users : u.login = login
    ELSE NoUser

\* User.findByPk(id)
UserFindByPk(id) ==
    IF \E u \in users : u.id = id
    THEN CHOOSE u \in users : u.id = id
    ELSE NoUser

\* include: Role -- the name of the Role row a User row belongs to
RoleName(u) ==
    IF \E r \in roles : r.id = u.roleId
    THEN (CHOOSE r \in roles : r.id = u.roleId).name
    ELSE ""

\* an INSERT that does not enforce the unique index on login
UserCreateOkNoUnique(login, roleId) == \E r \in roles : r.id = roleId

\* the constraints an INSERT into User must meet: login unique, roleId references Role.id
UserCreateOk(login, roleId) ==
    /\ \A u \in users : u.login # login
    /\ \E r \in roles : r.id = roleId

\* User.create({ login, password, roleId }): the row inserted
UserCreate(login, hashed, roleId) ==
    [id |-> userSeq + 1, login |-> login, password |-> hashed, roleId |-> roleId]

(* ----------------------------- requests ------------------------------- *)

\* a request suspended in its handler, with the handler's local variables
Request(c, route, pc, login, password) ==
    [client |-> c, route |-> route, pc |-> pc, login |-> login, password |-> password,
     roleId |-> 0, hashed |-> "", user |-> NoUser, roleName |-> "", uid |-> 0,
     following |-> FALSE, newLogin |-> FALSE]

Suspended == BagToSet(inflight)
Suspend(r) == inflight (+) SetToBag({r})
Resume(r) == inflight (-) SetToBag({r})
Move(r, q) == (inflight (-) SetToBag({r})) (+) SetToBag({q})
CanAccept == BagCardinality(inflight) < MaxInFlight

(* ------------------------------ Init ---------------------------------- *)

\* the store as a finished startup leaves it: both roles and at least one User
Initialized ==
    /\ schema
    /\ \E ro \in roles : ro.name = "user"
    /\ \E ro \in roles : ro.name = "admin"
    /\ users # {}

\* the chain at process start; again: an earlier startup has initialized the store
BootStart(fresh, again) ==
    [pc |-> "sync", adminRoleId |-> 0, hashed |-> "", fresh |-> fresh, again |-> again]

\* the chain has settled ("done": resolved, "failed": rejected into .catch); its locals are gone
BootEnd(pc) ==
    [pc |-> pc, adminRoleId |-> 0, hashed |-> "", fresh |-> FALSE, again |-> FALSE]

Init ==
    /\ schema = FALSE
    /\ roles = {}
    /\ users = {}
    /\ userSeq = 0
    /\ sessions = [c \in Clients |-> NoSession]
    /\ boot = BootStart(TRUE, FALSE)
    /\ inflight = EmptyBag
    /\ ev = NoEvent
    /\ registered = {}

(* ----------------------------- bootstrap ------------------------------ *)

BootFinished == boot.pc \in {"done", "failed"}

\* sequelize.sync({ force: true }): drop the tables and create them again
BootSyncForce ==
    /\ boot.pc = "sync"
    /\ schema' = TRUE
    /\ roles' = {}
    /\ users' = {}
    /\ boot' = [boot EXCEPT !.pc = "roleUser"]
    /\ ev' = NoEvent
    /\ UNCHANGED <<userSeq, sessions, inflight, registered>>

\* sequelize.sync({ force: false }): create the tables if they do not exist
BootSync ==
    /\ boot.pc = "sync"
    /\ schema' = TRUE
    /\ boot' = [boot EXCEPT !.pc = "roleUser"]
    /\ ev' = NoEvent
    /\ UNCHANGED <<roles, users, userSeq, sessions, inflight, registered>>

BootRoleUser ==
    /\ boot.pc = "roleUser"
    /\ roles' = RoleFindOrCreate("user")
    /\ boot' = [boot EXCEPT !.pc = "roleAdmin"]
    /\ ev' = NoEvent
    /\ UNCHANGED <<schema, users, userSeq, sessions, inflight, registered>>

BootRoleAdmin ==
    /\ boot.pc = "roleAdmin"
    /\ roles' = RoleFindOrCreate("admin")
    /\ boot' = [boot EXCEPT !.pc = "count",
                            !.adminRoleId = (CHOOSE r \in roles' : r.name = "admin").id]
    /\ ev' = NoEvent
    /\ UNCHANGED <<schema, users, userSeq, sessions, inflight, registered>>

\* const usersCount = await User.count(); if (usersCount === 0) ...
BootCount ==
    /\ boot.pc = "count"
    /\ boot' = IF Cardinality(users) = 0 THEN [boot EXCEPT !.pc = "hash"] ELSE BootEnd("done")
    /\ ev' = NoEvent
    /\ UNCHANGED <<schema, roles, users, userSeq, sessions, inflight, registered>>

BootHash ==
    /\ boot.pc = "hash"
    /\ \E s \in Salts : boot' = [boot EXCEPT !.pc = "create", !.hashed = Hash("admin", s)]
    /\ ev' = NoEvent
    /\ UNCHANGED <<schema, roles, users, userSeq, sessions, inflight, registered>>

\* the default administrator's row
BootAdminRow == UserCreate("admin", boot.hashed, boot.adminRoleId)

\* await User.create({ login: "admin", ... }); a rejection ends in .catch(console.error)
BootCreate ==
    /\ boot.pc = "create"
    /\ IF UserCreateOk("admin", boot.adminRoleId)
       THEN /\ users' = users \cup {BootAdminRow}
            /\ userSeq' = userSeq + 1
            /\ boot' = BootEnd("done")
       ELSE /\ users' = users
            /\ userSeq' = userSeq
            /\ boot' = BootEnd("failed")
    /\ ev' = NoEvent
    /\ UNCHANGED <<schema, roles, sessions, inflight, registered>>

\* the process is stopped and started again: db.sqlite stays, memory is lost
Restart ==
    /\ boot' = BootStart(roles = {} /\ users = {}, Initialized)
    /\ sessions' = [c \in Clients |-> NoSession]
    /\ inflight' = EmptyBag
    /\ ev' = NoEvent
    /\ UNCHANGED <<schema, roles, users, userSeq, registered>>

(* --------------------------- POST /register --------------------------- *)

RegisterError(c, login, msg) ==
    Response(c, "POST /register", login, 400, "", "registration error: " \o msg)

\* const role = await Role.findOne(...); if (!role) return res.status(400)...
RegisterFindRole(c, login, password) ==
    /\ CanAccept
    /\ IF ~schema
       THEN /\ ev' = RegisterError(c, login, "no such table: Roles")
            /\ inflight' = inflight
       ELSE IF RoleFindOne("user") = NoRole
       THEN /\ ev' = Response(c, "POST /register", login, 400, "", "role not found")
            /\ inflight' = inflight
       ELSE /\ ev' = NoEvent
            /\ inflight' = Suspend([Request(c, "POST /register", "hash", login, password)
                               EXCEPT !.roleId = RoleFindOne("user").id,
                                      !.newLogin = (UserFindOne(login) = NoUser)])
    /\ UNCHANGED <<schema, roles, users, userSeq, sessions, boot, registered>>

\* const hashedPassword = await bcrypt.hash(password, 10);
RegisterHash(r) ==
    /\ r \in Suspended
    /\ r.route = "POST /register" /\ r.pc = "hash"
    /\ \E s \in Salts :
          inflight' = Move(r, [r EXCEPT !.pc = "create", !.hashed = Hash(r.password, s)])
    /\ ev' = NoEvent
    /\ UNCHANGED <<schema, roles, users, userSeq, sessions, boot, registered>>

\* await User.create({ login, password: hashedPassword, roleId: role.id });
\* res.redirect("/login"), or the catch block's 400
RegisterCreate(r) ==
    /\ r \in Suspended
    /\ r.route = "POST /register" /\ r.pc = "create"
    /\ inflight' = Resume(r)
    /\ IF UserCreateOk(r.login, r.roleId)
       THEN /\ users' = users \cup {UserCreate(r.login, r.hashed, r.roleId)}
            /\ userSeq' = userSeq + 1
            /\ ev' = Redirect(r.client, "POST /register", r.login, "/login")
            /\ registered' = registered \cup
                  {[login |-> r.login, password |-> r.password, id |-> userSeq + 1]}
       ELSE /\ users' = users
            /\ userSeq' = userSeq
            /\ ev' = RegisterError(r.client, r.login, "Validation error")
            /\ registered' = registered
    /\ UNCHANGED <<schema, roles, sessions, boot>>

(* ---------------------------- POST /login ----------------------------- *)

LoginDenied(c, login) ==
    Response(c, "POST /login", login, 401, "", "invalid login or password")

\* a handler that tells a client that the login does not exist
LoginFindOneReveals(c, login, password) ==
    /\ CanAccept
    /\ IF ~schema
       THEN /\ ev' = Response(c, "POST /login", login, 500, "",
                            "server error: no such table: Users")
            /\ inflight' = inflight
       ELSE IF UserFindOne(login) = NoUser
       THEN /\ ev' = Response(c, "POST /login", login, 404, "", "no such user")
            /\ inflight' = inflight
       ELSE /\ ev' = NoEvent
            /\ inflight' = Suspend([Request(c, "POST /login", "compare", login, password)
                               EXCEPT !.user = UserFindOne(login),
                                      !.roleName = RoleName(UserFindOne(login)),
                                      !.following = (\E g \in registered :
                                          g.login = login /\ g.password = password)])
    /\ UNCHANGED <<schema, roles, users, userSeq, sessions, boot, registered>>

\* const user = await User.findOne({ where: { login }, include: Role });
\* a null user skips bcrypt.compare and answers 401; a rejection answers 500
LoginFindOne(c, login, password) ==
    /\ CanAccept
    /\ IF ~schema
       THEN /\ ev' = Response(c, "POST /login", login, 500, "",
                            "server error: no such table: Users")
            /\ inflight' = inflight
       ELSE IF UserFindOne(login) = NoUser
       THEN /\ ev' = LoginDenied(c, login)
            /\ inflight' = inflight
       ELSE /\ ev' = NoEvent
            /\ inflight' = Suspend([Request(c, "POST /login", "compare", login, password)
                               EXCEPT !.user = UserFindOne(login),
                                      !.roleName = RoleName(UserFindOne(login)),
                                      !.following = (\E g \in registered :
                                          g.login = login /\ g.password = password)])
    /\ UNCHANGED <<schema, roles, users, userSeq, sessions, boot, registered>>

\* an identity whose role is the default role, whatever the row's role
IdentityUser(r) == [id |-> r.user.id, login |-> r.user.login, role |-> "user"]

\* { id: user.id, login: user.login, role: user.Role.name }
Identity(r) == [id |-> r.user.id, login |-> r.user.login, role |-> r.roleName]

\* the password compared with the stored string itself
LoginVerifiedPlain(r) == r.password = r.user.password

\* the password not checked at all
LoginVerifiedAny(r) == TRUE

\* await bcrypt.compare(password, user.password)
LoginVerified(r) == Compare(r.password, r.user.password)

\* a login that logs the client out when the password is wrong
LoginCompareClears(r) ==
    /\ r \in Suspended
    /\ r.route = "POST /login" /\ r.pc = "compare"
    /\ inflight' = Resume(r)
    /\ IF LoginVerified(r)
       THEN /\ sessions' = [sessions EXCEPT ![r.client] = Identity(r)]
            /\ ev' = Redirect(r.client, "POST /login", r.login, "/profile")
       ELSE /\ sessions' = [sessions EXCEPT ![r.client] = NoSession]
            /\ ev' = LoginDenied(r.client, r.login)
    /\ UNCHANGED <<schema, roles, users, userSeq, boot, registered>>

\* a login that keeps the identity of a session that exists already
LoginCompareKeeps(r) ==
    /\ r \in Suspended
    /\ r.route = "POST /login" /\ r.pc = "compare"
    /\ inflight' = Resume(r)
    /\ IF LoginVerified(r)
       THEN /\ sessions' = IF sessions[r.client] = NoSession
                           THEN [sessions EXCEPT ![r.client] = Identity(r)]
                           ELSE sessions
            /\ ev' = Redirect(r.client, "POST /login", r.login, "/profile")
       ELSE /\ sessions' = sessions
            /\ ev' = LoginDenied(r.client, r.login)
    /\ UNCHANGED <<schema, roles, users, userSeq, boot, registered>>

\* req.session.user = {...}; res.redirect("/profile")   or   401
LoginCompare(r) ==
    /\ r \in Suspended
    /\ r.route = "POST /login" /\ r.pc = "compare"
    /\ inflight' = Resume(r)
    /\ IF LoginVerified(r)
       THEN /\ sessions' = [sessions EXCEPT ![r.client] = Identity(r)]
            /\ ev' = Redirect(r.client, "POST /login", r.login, "/profile")
       ELSE /\ sessions' = sessions
            /\ ev' = LoginDenied(r.client, r.login)
    /\ UNCHANGED <<schema, roles, users, userSeq, boot, registered>>

(* ------------------------------ guards -------------------------------- *)

\* a guard that lets every request through
IsAuthenticatedAlways(c) == TRUE

\* isAuthenticated: if (req.session.user)
IsAuthenticated(c) == sessions[c] # NoSession

\* a guard that only checks that the user exists
HasRoleAnyone(user, roleName) == user # NoUser

\* hasRole(roleName): user && user.Role.name === roleName
HasRole(user, roleName) == user # NoUser /\ RoleName(user) = roleName

(* --------------------------- the GET routes --------------------------- *)

\* a home page that sends every client to the login form
HomeToLogin(c) ==
    /\ ev' = Redirect(c, "GET /", "", "/login")
    /\ UNCHANGED <<schema, roles, users, userSeq, sessions, boot, inflight, registered>>

\* app.get("/")
Home(c) ==
    /\ ev' = IF IsAuthenticated(c) THEN Redirect(c, "GET /", "", "/profile")
                                   ELSE Redirect(c, "GET /", "", "/login")
    /\ UNCHANGED <<schema, roles, users, userSeq, sessions, boot, inflight, registered>>

\* app.get("/profile", isAuthenticated, ...)
Profile(c) ==
    /\ ev' = IF IsAuthenticated(c)
             THEN Response(c, "GET /profile", "", 200, "", "welcome " \o sessions[c].login)
             ELSE Redirect(c, "GET /profile", "", "/login")
    /\ UNCHANGED <<schema, roles, users, userSeq, sessions, boot, inflight, registered>>

\* app.get("/admin", isAuthenticated, hasRole("admin"), ...) up to the await in hasRole
AdminGuard(c) ==
    /\ CanAccept
    /\ IF IsAuthenticated(c)
       THEN /\ ev' = NoEvent
            /\ inflight' = Suspend([Request(c, "GET /admin", "findByPk", "", "")
                               EXCEPT !.uid = sessions[c].id])
       ELSE /\ ev' = Redirect(c, "GET /admin", "", "/login")
            /\ inflight' = inflight
    /\ UNCHANGED <<schema, roles, users, userSeq, sessions, boot, registered>>

\* a guard that decides on the role the session holds
AdminFindByPkSnapshot(r) ==
    /\ r \in Suspended
    /\ r.route = "GET /admin" /\ r.pc = "findByPk"
    /\ inflight' = Resume(r)
    /\ ev' = IF sessions[r.client] # NoSession /\ sessions[r.client].role = "admin"
             THEN Response(r.client, "GET /admin", "", 200, "", "admin panel")
             ELSE Response(r.client, "GET /admin", "", 403, "", "forbidden")
    /\ UNCHANGED <<schema, roles, users, userSeq, sessions, boot, registered>>

\* const user = await User.findByPk(req.session.user.id, { include: Role }); next() or 403
AdminFindByPk(r) ==
    /\ r \in Suspended
    /\ r.route = "GET /admin" /\ r.pc = "findByPk"
    /\ inflight' = Resume(r)
    /\ ev' = IF HasRole(UserFindByPk(r.uid), "admin")
             THEN Response(r.client, "GET /admin", "", 200, "", "admin panel")
             ELSE Response(r.client, "GET /admin", "", 403, "", "forbidden")
    /\ UNCHANGED <<schema, roles, users, userSeq, sessions, boot, registered>>

\* a destroy that leaves the session in the store
DestroyedNot(c) == sessions

\* req.session.destroy(...): the session store without the client's session
Destroyed(c) == [sessions EXCEPT ![c] = NoSession]

\* app.get("/logout"): req.session.destroy(callback), suspended until the callback runs
LogoutDestroy(c) ==
    /\ CanAccept
    /\ sessions' = Destroyed(c)
    /\ inflight' = Suspend(Request(c, "GET /logout", "destroyed", "", ""))
    /\ ev' = NoEvent
    /\ UNCHANGED <<schema, roles, users, userSeq, boot, registered>>

\* a callback that returns on an error of the store without responding
LogoutRespondOnSuccess(r) ==
    /\ r \in Suspended
    /\ r.route = "GET /logout" /\ r.pc = "destroyed"
    /\ inflight' = Resume(r)
    /\ ev' = Redirect(r.client, "GET /logout", "", "/")
    /\ UNCHANGED <<schema, roles, users, userSeq, sessions, boot, registered>>

\* the callback of destroy: if (err) console.error(err); res.redirect("/")
LogoutRespond(r) ==
    /\ r \in Suspended
    /\ r.route = "GET /logout" /\ r.pc \in {"destroyed", "destroyFailed"}
    /\ inflight' = Resume(r)
    /\ ev' = Redirect(r.client, "GET /logout", "", "/")
    /\ UNCHANGED <<schema, roles, users, userSeq, sessions, boot, registered>>

(* --------------------------- specification ---------------------------- *)

Next ==
    \/ BootSync
    \/ BootRoleUser
    \/ BootRoleAdmin
    \/ BootCount
    \/ BootHash
    \/ BootCreate
    \/ Restart
    \/ \E c \in Clients : Home(c)
    \/ \E c \in Clients : Profile(c)
    \/ \E c \in Clients, l \in Logins, p \in NewPasswords : RegisterFindRole(c, l, p)
    \/ \E r \in Suspended : RegisterHash(r)
    \/ \E r \in Suspended : RegisterCreate(r)
    \/ \E c \in Clients, l \in Logins, p \in Passwords : LoginFindOne(c, l, p)
    \/ \E r \in Suspended : LoginCompare(r)
    \/ \E c \in Clients : AdminGuard(c)
    \/ \E r \in Suspended : AdminFindByPk(r)
    \/ \E c \in Clients : LogoutDestroy(c)
    \/ \E r \in Suspended : LogoutRespond(r)

Spec == Init /\ [][Next]_vars

(* ------------------------- failing operations ------------------------ *)

\* the message of the error a store operation rejects with
StoreDown == "SQLITE_BUSY: database is locked"

\* the message of the error an insert rejects with when the store cannot grow
StoreFull == "SQLITE_FULL: database or disk is full"

\* Role.findOne rejects: the catch block of POST /register answers 400
RegisterFindRoleFails(c, login, password) ==
    /\ CanAccept
    /\ ev' = RegisterError(c, login, StoreDown)
    /\ UNCHANGED <<schema, roles, users, userSeq, sessions, boot, inflight, registered>>

\* User.create rejects for another reason than a constraint: the same catch block
RegisterCreateFails(r) ==
    /\ r \in Suspended
    /\ r.route = "POST /register" /\ r.pc = "create"
    /\ inflight' = Resume(r)
    /\ ev' = RegisterError(r.client, r.login, StoreFull)
    /\ UNCHANGED <<schema, roles, users, userSeq, sessions, boot, registered>>

\* User.findOne rejects: the catch block of POST /login answers 500
LoginFindOneFails(c, login, password) ==
    /\ CanAccept
    /\ ev' = Response(c, "POST /login", login, 500, "", "server error: " \o StoreDown)
    /\ UNCHANGED <<schema, roles, users, userSeq, sessions, boot, inflight, registered>>

\* User.findByPk rejects in hasRole, which has no try/catch: the promise of the async
\* middleware rejects and nothing in server.js handles it.  What follows depends on the
\* express and node the application runs on; the three outcomes are separate actions.
\* (1) the rejection is dropped: the request is never answered (status 0: no response)
AdminFindByPkHangs(r) ==
    /\ r \in Suspended
    /\ r.route = "GET /admin" /\ r.pc = "findByPk"
    /\ inflight' = Resume(r)
    /\ ev' = Response(r.client, "GET /admin", "", 0, "", "unhandled rejection: " \o StoreDown)
    /\ UNCHANGED <<schema, roles, users, userSeq, sessions, boot, registered>>

\* (2) the unhandled rejection ends the process: no request in flight is answered, the
\* memory is lost, and the process has to be started again
AdminFindByPkCrashes(r) ==
    /\ r \in Suspended
    /\ r.route = "GET /admin" /\ r.pc = "findByPk"
    /\ boot' = BootStart(roles = {} /\ users = {}, Initialized)
    /\ sessions' = [c \in Clients |-> NoSession]
    /\ inflight' = EmptyBag
    /\ ev' = Response(r.client, "GET /admin", "", 0, "", "process exited: " \o StoreDown)
    /\ UNCHANGED <<schema, roles, users, userSeq, registered>>

\* (3) the router passes the rejection to its default error handler, which answers 500
AdminFindByPkRouted(r) ==
    /\ r \in Suspended
    /\ r.route = "GET /admin" /\ r.pc = "findByPk"
    /\ inflight' = Resume(r)
    /\ ev' = Response(r.client, "GET /admin", "", 500, "", StoreDown)
    /\ UNCHANGED <<schema, roles, users, userSeq, sessions, boot, registered>>

\* the session store reports an error to the callback of destroy: the session stays,
\* the callback logs the error and redirects all the same
LogoutDestroyFails(c) ==
    /\ CanAccept
    /\ inflight' = Suspend(Request(c, "GET /logout", "destroyFailed", "", ""))
    /\ ev' = NoEvent
    /\ UNCHANGED <<schema, roles, users, userSeq, sessions, boot, registered>>

NextFail ==
    \/ Next
    \/ \E c \in Clients, l \in Logins, p \in NewPasswords : RegisterFindRoleFails(c, l, p)
    \/ \E r \in Suspended : RegisterCreateFails(r)
    \/ \E c \in Clients, l \in Logins, p \in Passwords : LoginFindOneFails(c, l, p)
    \/ \E r \in Suspended : AdminFindByPkHangs(r)
    \/ \E r \in Suspended : AdminFindByPkCrashes(r)
    \/ \E r \in Suspended : AdminFindByPkRouted(r)
    \/ \E c \in Clients : LogoutDestroyFails(c)

\* the application with store operations that may fail
SpecFail == Init /\ [][NextFail]_vars

(* ----------------------- changes made to db.sqlite --------------------- *)

\* the largest id the sequence has handed out when a row may still be deleted
MaxUserId == 2

\* an administrator's row is deleted from db.sqlite by someone else than the application
ExternalDelete(u) ==
    /\ u \in users
    /\ RoleName(u) = "admin"
    /\ userSeq < MaxUserId
    /\ users' = users \ {u}
    /\ ev' = NoEvent
    /\ UNCHANGED <<schema, roles, userSeq, sessions, boot, inflight, registered>>

\* the roleId of an administrator's row is set to the role "user"
ExternalDemote(u) ==
    /\ u \in users
    /\ RoleName(u) = "admin"
    /\ RoleFindOne("user") # NoRole
    /\ users' = (users \ {u}) \cup {[u EXCEPT !.roleId = RoleFindOne("user").id]}
    /\ ev' = NoEvent
    /\ UNCHANGED <<schema, roles, userSeq, sessions, boot, inflight, registered>>

\* the routes that read or write User rows, and the changes made from outside
NextEnv ==
    \/ BootSync
    \/ BootRoleUser
    \/ BootRoleAdmin
    \/ BootCount
    \/ BootHash
    \/ BootCreate
    \/ Restart
    \/ \E c \in Clients, l \in Logins, p \in NewPasswords : RegisterFindRole(c, l, p)
    \/ \E r \in Suspended : RegisterHash(r)
    \/ \E r \in Suspended : RegisterCreate(r)
    \/ \E c \in Clients, l \in Logins, p \in Passwords : LoginFindOne(c, l, p)
    \/ \E r \in Suspended : LoginCompare(r)
    \/ \E c \in Clients : AdminGuard(c)
    \/ \E r \in Suspended : AdminFindByPk(r)
    \/ \E u \in users : ExternalDelete(u)
    \/ \E u \in users : ExternalDemote(u)

\* the application on a store whose rows may be deleted or demoted under it
SpecEnv == Init /\ [][NextEnv]_vars

\* the session routes alone, with a session store that may fail: what a logout
\* can meet between its destroy and the callback
NextLive ==
    \/ BootSync
    \/ BootRoleUser
    \/ BootRoleAdmin
    \/ BootCount
    \/ BootHash
    \/ BootCreate
    \/ Restart
    \/ \E c \in Clients : Home(c)
    \/ \E c \in Clients : Profile(c)
    \/ \E c \in Clients, l \in Logins, p \in Passwords : LoginFindOne(c, l, p)
    \/ \E r \in Suspended : LoginCompare(r)
    \/ \E c \in Clients : LogoutDestroy(c)
    \/ \E c \in Clients : LogoutDestroyFails(c)
    \/ \E r \in Suspended : LogoutRespond(r)

\* the event loop runs every callback that is ready: the callback of each client's
\* destroy is not postponed for ever
SpecLive ==
    /\ Init /\ [][NextLive]_vars
    /\ \A c \in Clients : WF_vars(\E r \in Suspended : r.client = c /\ LogoutRespond(r))

(* ------------------------------ claims -------------------------------- *)

\* the step resumes the suspended request r and answers it
Answers(r) ==
    /\ r \in Suspended
    /\ inflight' = Resume(r)
    /\ ev'.route = r.route /\ ev'.client = r.client /\ ev'.login = r.login

\* the step answers a request of client c on `route` without suspending it
AnswersAtOnce(c, route) ==
    /\ ev'.route = route /\ ev'.client = c
    /\ inflight' = inflight

LoginExists(login) == \E u \in users : u.login = login

\* C1: a POST /login(L,P) that starts after a POST /register(L,P) was answered with the
\* redirect to /login is answered with the redirect to /profile, and leaves the client's
\* session holding the id of the created User, login L and role "user".
C1_RegisterThenLogin ==
    [][\A r \in Suspended :
          (r.route = "POST /login" /\ r.following /\ Answers(r)) =>
             /\ ev' = Redirect(r.client, "POST /login", r.login, "/profile")
             /\ \E g \in registered :
                   /\ g.login = r.login /\ g.password = r.password
                   /\ sessions'[r.client] = [id |-> g.id, login |-> r.login, role |-> "user"]
      ]_vars

C1_Witness ==
    /\ ev.route = "POST /login" /\ ev.status = 302 /\ ev.loc = "/profile"
    /\ \E g \in registered :
          sessions[ev.client] = [id |-> g.id, login |-> g.login, role |-> "user"]

\* C2: a POST /register whose login is already in the User table when it inserts is
\* answered with status 400 and leaves the User table as it was; and no state holds two
\* User rows with the same login.
C2_DuplicateLogin ==
    /\ [][\A r \in Suspended :
             (r.route = "POST /register" /\ r.pc = "create" /\ Answers(r)
                 /\ LoginExists(r.login)) =>
                (ev'.status = 400 /\ users' = users)
         ]_vars
    /\ [](\A u, v \in users : u.login = v.login => u = v)

C2_Witness ==
    /\ ev.route = "POST /register" /\ ev.status = 400
    /\ ev.body = "registration error: Validation error"
    /\ Cardinality({u \in users : u.login = ev.login}) = 1

\* C3: of the POST /register requests that found their login new and are in flight
\* together, the one that inserts first is answered with the redirect to /login and every
\* later one with an error (400); exactly one User row with that login exists after each
\* of them, and at most one of them was ever answered with the redirect.
C3_ConcurrentRegister ==
    [][\A r \in Suspended :
          (r.route = "POST /register" /\ r.pc = "create" /\ r.newLogin /\ Answers(r)) =>
             /\ IF LoginExists(r.login)
                THEN ev'.status = 400 /\ ev'.loc = ""
                ELSE ev' = Redirect(r.client, "POST /register", r.login, "/login")
             /\ Cardinality({u \in users' : u.login = r.login}) = 1
             /\ Cardinality({g \in registered' : g.login = r.login}) <= 1
      ]_vars

\* one of two interleaved registrations of a new login has won, the other is about to insert
C3_Witness ==
    /\ ev.route = "POST /register" /\ ev.status = 302
    /\ \E r \in Suspended :
          /\ r.route = "POST /register" /\ r.pc = "create" /\ r.newLogin
          /\ r.login = ev.login
          /\ \E g \in registered : g.login = r.login

\* C4: a POST /login with the login of an existing User and a password that does not
\* verify against the stored hash is answered with 401 and changes no session.
C4_WrongPassword ==
    [][\A r \in Suspended :
          (r.route = "POST /login" /\ Answers(r) /\ r.user \in users
              /\ ~Compare(r.password, r.user.password)) =>
             (ev' = LoginDenied(r.client, r.login) /\ sessions' = sessions)
      ]_vars

C4_Witness ==
    /\ ev.route = "POST /login" /\ ev.status = 401
    /\ LoginExists(ev.login)
    /\ sessions[ev.client] = NoSession

\* C5: GET /profile of a client whose session holds no user is answered with the redirect
\* to /login; the page (200) is sent only when the client's session holds a user.
C5_ProfileNeedsSession ==
    [][\A c \in Clients :
          AnswersAtOnce(c, "GET /profile") =>
             /\ sessions[c] = NoSession => ev' = Redirect(c, "GET /profile", "", "/login")
             /\ ev'.status = 200 => sessions[c] # NoSession
             /\ ev'.status \in {200, 302}
      ]_vars

C5_Witness ==
    /\ ev.route = "GET /profile" /\ ev.status = 302 /\ ev.loc = "/login"
    /\ sessions[ev.client] = NoSession

\* the User row stored under id has the role named "admin"
StoredAdmin(id) ==
    \E u \in users : u.id = id /\ \E ro \in roles : ro.id = u.roleId /\ ro.name = "admin"

\* C6: GET /admin is answered 200 exactly when the request came with a session and the
\* User row stored under the session's id has role "admin"; with a session whose user has
\* another role it is answered 403 without a redirect; without a session it is redirected
\* to /login.
C6_AdminOnly ==
    [][/\ \A r \in Suspended :
             (r.route = "GET /admin" /\ Answers(r)) =>
                /\ r.uid # 0
                /\ ev'.loc = ""
                /\ ev'.status = IF StoredAdmin(r.uid) THEN 200 ELSE 403
       /\ \A c \in Clients :
             AnswersAtOnce(c, "GET /admin") =>
                (sessions[c] = NoSession /\ ev' = Redirect(c, "GET /admin", "", "/login"))
       /\ \A c \in Clients :
             (sessions[c] = NoSession /\ ev'.route = "GET /admin" /\ ev'.client = c
                 /\ ~\E r \in Suspended : r.route = "GET /admin" /\ r.client = c) =>
                ev'.status = 302
      ]_vars

C6_Witness ==
    /\ ev.route = "GET /admin" /\ ev.status = 200
    /\ sessions[ev.client].role = "admin"
    /\ \E c \in Clients : sessions[c].role = "user"

\* C7 as claimed, for the GET /profile answered right after the GET /logout of the same
\* client was answered (no POST /login completes in between), with bootstrap long
\* completed: it is redirected to /login.
C7_AfterLogoutResponse ==
    [][(boot.pc = "done" /\ ev.route = "GET /logout" /\ ev'.route = "GET /profile"
           /\ ev'.client = ev.client) =>
          ev' = Redirect(ev.client, "GET /profile", "", "/login")
      ]_vars

\* the step is the first half of GET /logout of client c: destroy was called
Destroys(c) ==
    \E q \in BagToSet(inflight') :
       q.route = "GET /logout" /\ q.client = c /\ inflight' = Suspend(q)

\* the step answers a POST /login of client c with the redirect to /profile
LoginSucceeds(c) ==
    ev'.route = "POST /login" /\ ev'.client = c /\ ev'.status = 302

\* C7 (amended): once GET /logout has destroyed a client's session, the client has no
\* session until one of its POST /login requests succeeds, and until then every GET
\* /profile of that client is redirected to /login.  (A login that succeeds between the
\* destroy and the logout's own redirect leaves the client logged in.)
C7_AfterDestroy ==
    [][\A c \in Clients :
          /\ Destroys(c) => sessions'[c] = NoSession
          /\ (sessions[c] = NoSession /\ ~LoginSucceeds(c)) => sessions'[c] = NoSession
          /\ (sessions[c] = NoSession /\ AnswersAtOnce(c, "GET /profile")) =>
                ev' = Redirect(c, "GET /profile", "", "/login")
      ]_vars

\* a logout is answered while a login that completed after its destroy has set the session
C7_Witness ==
    /\ ev.route = "GET /logout" /\ ev.status = 302 /\ ev.loc = "/"
    /\ sessions[ev.client] # NoSession

C9_FreshStartAdmin ==
    [][(boot.fresh /\ ~BootFinished /\ BootFinished') =>
          \E u \in users' :
             /\ users' = {u}
             /\ u.login = "admin"
             /\ \E ro \in roles' : ro.id = u.roleId /\ ro.name = "admin"
             /\ u.password # "admin"
             /\ Compare("admin", u.password)
      ]_vars

\* C10: whenever bootstrap has finished, the Role table holds "user" and "admin" and some
\* User has role "admin".
C10_AdminExists ==
    BootFinished =>
       /\ \E ro \in roles : ro.name = "user"
       /\ \E ro \in roles : ro.name = "admin"
       /\ \E u \in users : StoredAdmin(u.id)

\* the step is a step of the bootstrap chain
BootStep == boot'.pc # boot.pc /\ boot'.pc # "sync"

\* C11: a startup that runs against a store which an earlier startup has initialized
\* changes no row of Role or User: each of its steps (sync, the two find-or-create,
\* count) leaves both tables as they are, whatever was registered before.
C11_SecondStartup ==
    [][(BootStep /\ boot.again) =>
          (roles' = roles /\ users' = users /\ userSeq' = userSeq /\ schema' = schema)
      ]_vars

\* a process started against a store with rows has run sync and both find-or-create, and
\* the store holds the default admin and a registered user
C11_Witness ==
    /\ boot.pc = "count" /\ boot.again
    /\ registered # {}
    /\ \E u \in users : u.login = "admin" /\ RoleName(u) = "admin"
    /\ \E u \in users : RoleName(u) = "user"

\* the texts sent, or the reasons nothing was sent, when a store operation has failed
StoreFailureBodies ==
    { "registration error: " \o StoreDown, "registration error: " \o StoreFull,
      "server error: " \o StoreDown, StoreDown,
      "unhandled rejection: " \o StoreDown, "process exited: " \o StoreDown }

\* C12: a request during which a store operation fails is answered with an error response
\* (400 or 500): it is never left without a response and the process does not exit.
C12_FailureAnswered ==
    ev.body \in StoreFailureBodies => ev.status \in {400, 500}

\* a GET /logout of client c waits for the callback of destroy
LogoutPending(c) == \E r \in Suspended : r.client = c /\ r.route = "GET /logout"

\* C13: every GET /logout is eventually answered with a redirect to "/", whether the
\* destroy succeeded or the store reported an error, and whether or not the client had a
\* session (as long as the process is not ended before the callback runs).
C13_LogoutRedirects ==
    \A c \in Clients :
        LogoutPending(c) ~> (ev = Redirect(c, "GET /logout", "", "/") \/ boot.pc = "sync")

\* a logout whose destroy failed waits while the client still has its session, and
\* another client's logout, without a session, waits too
C13_Witness ==
    \E c, d \in Clients :
        /\ c # d
        /\ sessions[c] # NoSession /\ sessions[d] = NoSession
        /\ \E r \in Suspended : r.client = c /\ r.route = "GET /logout" /\ r.pc = "destroyFailed"
        /\ \E r \in Suspended : r.client = d /\ r.route = "GET /logout" /\ r.pc = "destroyed"

\* C14: a GET /admin whose session's id has no User row any more, or a row whose role is
\* not "admin", is answered 403 without a redirect, whatever role the session holds, and
\* the answer leaves every session as it was.
C14_GuardReadsStore ==
    [][\A r \in Suspended :
          (r.route = "GET /admin" /\ Answers(r) /\ ~StoredAdmin(r.uid)) =>
              /\ ev' = Response(r.client, "GET /admin", "", 403, "", "forbidden")
              /\ sessions' = sessions
      ]_vars

\* 403 was sent to a client whose session still says "admin": its row has another role
C14_Witness ==
    /\ ev.route = "GET /admin" /\ ev.status = 403 /\ ev.loc = ""
    /\ sessions[ev.client] # NoSession
    /\ sessions[ev.client].role = "admin"
    /\ \E u \in users : u.id = sessions[ev.client].id /\ RoleName(u) = "user"

\* the same with the row deleted
C14_WitnessDeleted ==
    /\ ev.route = "GET /admin" /\ ev.status = 403 /\ ev.loc = ""
    /\ sessions[ev.client] # NoSession
    /\ sessions[ev.client].role = "admin"
    /\ \A u \in users : u.id # sessions[ev.client].id

\* the rows of `us` whose role, looked up in `rs`, is "admin"
AdminRows(us, rs) == {u \in us : \E ro \in rs : ro.id = u.roleId /\ ro.name = "admin"}

\* the step takes a POST /register of client c up to its first await or its answer
RegisterArrives(c) ==
    \/ AnswersAtOnce(c, "POST /register")
    \/ \E q \in BagToSet(inflight') :
          /\ q.route = "POST /register" /\ q.client = c /\ q.pc = "hash"
          /\ inflight' = Suspend(q)

\* every row references a Role row; at most one row is an administrator
C15_RowsHaveRoles ==
    /\ \A u \in users' : \E ro \in roles' : ro.id = u.roleId
    /\ Cardinality(AdminRows(users', roles')) <= 1

\* an administrator's row is inserted by bootstrap only, with login "admin"
C15_AdminByBootstrap ==
    \A u \in AdminRows(users' \ users, roles') : BootStep /\ u.login = "admin"

\* ... and into an empty User table
C15_AdminIntoEmptyTable ==
    \A u \in AdminRows(users' \ users, roles') : users = {}

\* any other row is inserted with role "user", by the answer to a POST /register
C15_UserByRegister ==
    \A u \in (users' \ users) \ AdminRows(users', roles') :
        /\ \E ro \in roles' : ro.id = u.roleId /\ ro.name = "user"
        /\ ev' = Redirect(ev'.client, "POST /register", u.login, "/login")

\* without the role "user" a POST /register is answered 400 and inserts nothing
C15_NoRoleNoUser ==
    \A c \in Clients :
        (RegisterArrives(c) /\ RoleFindOne("user") = NoRole) =>
            (AnswersAtOnce(c, "POST /register") /\ ev'.status = 400 /\ users' = users)

\* C15: registration creates rows with role "user" only; every User row references an
\* existing Role row; at most one row has role "admin", and it was inserted by bootstrap
\* with login "admin" into an empty User table; a POST /register without the role "user"
\* is answered 400 and inserts no row.
C15_RolesOfUsers ==
    [][ /\ C15_RowsHaveRoles
        /\ C15_AdminByBootstrap
        /\ C15_AdminIntoEmptyTable
        /\ C15_UserByRegister
        /\ C15_NoRoleNoUser ]_vars

\* C15 without the condition on the table at the moment of the insert
C15_RolesOfUsersButTable ==
    [][ /\ C15_RowsHaveRoles
        /\ C15_AdminByBootstrap
        /\ C15_UserByRegister
        /\ C15_NoRoleNoUser ]_vars

\* the step answers client c with the one response of a refused login and touches no session
Refused(c) ==
    /\ ev'.client = c /\ ev'.route = "POST /login"
    /\ ev'.status = 401 /\ ev'.loc = "" /\ ev'.body = "invalid login or password"
    /\ sessions' = sessions

\* C16: a POST /login with a login that no User row has, and a POST /login with an
\* existing login and a password that does not match, get the same response (401, the
\* same message, no redirect) and neither changes a session.
C16_SameRefusal ==
    [][ /\ \A c \in Clients :
             (AnswersAtOnce(c, "POST /login") /\ schema /\ ~LoginExists(ev'.login))
                 => Refused(c)
        /\ \A r \in Suspended :
             (r.route = "POST /login" /\ Answers(r) /\ ~Compare(r.password, r.user.password))
                 => Refused(r.client)
      ]_vars

\* a login nobody has was refused while another login exists
C16_Witness ==
    /\ ev = LoginDenied(ev.client, ev.login)
    /\ schema /\ ~LoginExists(ev.login)
    /\ users # {}

\* an existing login was refused for its password
C16_WitnessWrongPassword ==
    /\ ev = LoginDenied(ev.client, ev.login)
    /\ \E u \in users : u.login = ev.login /\ ~Compare("pw", u.password)

\* what a login as the user of row u stores in a session
IdentityOf(u) == [id |-> u.id, login |-> u.login, role |-> RoleName(u)]

\* C17: a POST /login that succeeds for a client that has a session already leaves that
\* client with the id, login and role of the user just authenticated, in place of the
\* ones it held; and every GET /profile answered to a client with a session greets the
\* login its session holds.
C17_LoginReplaces ==
    [][ /\ \A r \in Suspended :
             (r.route = "POST /login" /\ Answers(r) /\ ev'.status = 302
                 /\ sessions[r.client] # NoSession)
             => \E u \in users : u.login = r.login /\ sessions'[r.client] = IdentityOf(u)
        /\ \A c \in Clients :
             (AnswersAtOnce(c, "GET /profile") /\ sessions[c] # NoSession)
             => ev' = Response(c, "GET /profile", "", 200, "", "welcome " \o sessions[c].login)
      ]_vars

\* a client greeted as one user has a login for another user waiting at bcrypt.compare
\* with the right password: the login can only succeed, over the session that exists
C17_Witness ==
    \E c \in Clients :
        /\ sessions[c] # NoSession
        /\ ev = Response(c, "GET /profile", "", 200, "", "welcome " \o sessions[c].login)
        /\ \E r \in Suspended :
              /\ r.client = c /\ r.route = "POST /login" /\ r.pc = "compare"
              /\ LoginVerified(r)
              /\ r.user.login # sessions[c].login

\* C18: GET / is answered with a redirect to /profile exactly when the client's session
\* holds a user, and with a redirect to /login otherwise; the step changes no session and
\* nothing in the store.
C18_HomeRedirects ==
    [][\A c \in Clients :
          AnswersAtOnce(c, "GET /") =>
              /\ ev' = IF sessions[c] # NoSession
                       THEN Redirect(c, "GET /", "", "/profile")
                       ELSE Redirect(c, "GET /", "", "/login")
              /\ sessions' = sessions
              /\ schema' = schema /\ roles' = roles /\ users' = users /\ userSeq' = userSeq
      ]_vars

\* GET / sent a logged-in client to /profile while the other client has no session
C18_Witness ==
    \E c, d \in Clients :
        /\ ev = Redirect(c, "GET /", "", "/profile")
        /\ sessions[c] # NoSession /\ sessions[d] = NoSession

\* GET / sent a client without a session to /login
C18_WitnessLogin ==
    \E c \in Clients :
        /\ ev = Redirect(c, "GET /", "", "/login")
        /\ sessions[c] = NoSession /\ users # {}

\* C19: a POST /login answered 401 or 500 changes no session: a client that was logged
\* in stays logged in as the same user.
C19_FailedLoginKeepsSession ==
    [][(ev'.route = "POST /login" /\ ev'.status \in {401, 500}) => sessions' = sessions]_vars

\* a logged-in client's POST /login was answered 500
C19_Witness ==
    /\ ev.route = "POST /login" /\ ev.status = 500
    /\ sessions[ev.client] # NoSession

\* a logged-in client's POST /login was answered 401
C19_WitnessRefused ==
    /\ ev.route = "POST /login" /\ ev.status = 401
    /\ sessions[ev.client] # NoSession

\* every session holds the id, login and role name of a User row in the store
SessionsMatchRows ==
    \A c \in Clients : sessions[c] # NoSession => \E u \in users : sessions[c] = IdentityOf(u)

\* the process was started again: every session is lost, by no client's action
Restarted == boot'.pc = "sync" /\ inflight' = EmptyBag

\* C20: under the application's own operations every session holds the id, login and
\* role name of a User row that is in the store, and the session of a client changes only
\* by that client's own successful login or logout (or is lost with the process).
C20_SessionsOwnRows ==
    /\ []SessionsMatchRows
    /\ [][\A d \in Clients :
             sessions'[d] # sessions[d] => (LoginSucceeds(d) \/ Destroys(d) \/ Restarted)
         ]_vars

\* both clients are logged in, as different users, one of them the administrator
C20_Witness ==
    \E c, d \in Clients :
        /\ sessions[c] # NoSession /\ sessions[d] # NoSession
        /\ sessions[c].role = "admin" /\ sessions[d].role = "user"
        /\ ev.route = "POST /login" /\ ev.status = 302

====
